---- MODULE Spec2Model ----
(***************************************************************************)
(* Computer-opponent move selection of the chess application: the          *)
(* evaluator, the alpha-beta minimax and getBestMove, in the two versions  *)
(* the repository holds (src/unnamed/part_003 and src/unnamed/part_004).   *)
(* chess.js is an external library: the rules engine below is a stand-in   *)
(* with the same interface (moves, move, undo, turn, board, isGameOver).   *)
(***************************************************************************)
EXTENDS Integers, Sequences, FiniteSets, TLC

(***************************************************************************)
(* Bounds of the model                                                     *)
(***************************************************************************)
\* number of getBestMove calls made on the same game object
MaxCalls == 2
\* number of pieces put on the board handed to the evaluator alone
MaxPlaced == 1

(***************************************************************************)
(* Pieces, squares, boards                                                 *)
(***************************************************************************)
Libs == {"part_003", "part_004"}
Difficulty == {"Beginner", "Easy", "Hard", "Master"}
Types == {"p", "n", "b", "r", "q", "k"}
Colors == {"w", "b"}
NoPiece == [type |-> "-", color |-> "-"]
Piece(c, t) == [type |-> t, color |-> c]
Squares == 0..63
\* game.board()[i][j] is square i * 8 + j; row 0 is rank 8
Sq(i, j) == i * 8 + j
RowOf(sq) == sq \div 8
ColOf(sq) == sq % 8
OnBoard(i, j) == i \in 0..7 /\ j \in 0..7
EmptyBoard == [sq \in Squares |-> NoPiece]
Other(c) == IF c = "w" THEN "b" ELSE "w"

(***************************************************************************)
(* Evaluator                                                               *)
(***************************************************************************)
PIECE_VALUES(t) ==
  CASE t = "p" -> 10 [] t = "n" -> 30 [] t = "b" -> 30
    [] t = "r" -> 50 [] t = "q" -> 90 [] t = "k" -> 900
    [] OTHER -> 0

PST_p ==
  <<  0,  0,  0,  0,  0,  0,  0,  0,
      5,  5,  5, -5, -5,  5,  5,  5,
      5, -5,-10,  0,  0,-10, -5,  5,
      0,  0,  0, 20, 20,  0,  0,  0,
      5,  5, 10, 25, 25, 10,  5,  5,
     10, 10, 20, 30, 30, 20, 10, 10,
     50, 50, 50, 50, 50, 50, 50, 50,
      0,  0,  0,  0,  0,  0,  0,  0 >>

PST_n ==
  << -50,-40,-30,-30,-30,-30,-40,-50,
     -40,-20,  0,  5,  5,  0,-20,-40,
     -30,  5, 10, 15, 15, 10,  5,-30,
     -30,  0, 15, 20, 20, 15,  0,-30,
     -30,  5, 15, 20, 20, 15,  5,-30,
     -30,  0, 10, 15, 15, 10,  0,-30,
     -40,-20,  0,  0,  0,  0,-20,-40,
     -50,-40,-30,-30,-30,-30,-40,-50 >>

\* PST[type]?.[index] || 0
PST(t, index) ==
  CASE t = "p" -> PST_p[index + 1]
    [] t = "n" -> PST_n[index + 1]
    [] OTHER -> 0

\* the table read at the piece's own square for both colours
PstIndexUnmirrored(c, i, j) == i * 8 + j

\* the index the table is read at for a piece of colour c on row i, column j
PstIndex(c, i, j) == IF c = "w" THEN i * 8 + j ELSE (7 - i) * 8 + j

posScore(l, piece, i, j) ==
  IF l = "part_004" /\ (piece.type = "p" \/ piece.type = "n")
    THEN PST(piece.type, PstIndex(piece.color, i, j))
    ELSE 0

\* every piece counted for white
SignAlwaysPlus(c) == 1

Sign(c) == IF c = "w" THEN 1 ELSE -1

\* what one square adds to totalEvaluation
Contribution(l, b, sq) ==
  LET piece == b[sq] IN
  IF piece = NoPiece THEN 0
  ELSE (PIECE_VALUES(piece.type) + posScore(l, piece, RowOf(sq), ColOf(sq)))
         * Sign(piece.color)

\* the inner loop: for (let j = 0; j < 8; j++), from column j on
RECURSIVE EvalRow(_, _, _, _)
EvalRow(l, b, i, j) ==
  IF j > 7 THEN 0
  ELSE Contribution(l, b, Sq(i, j)) + EvalRow(l, b, i, j + 1)

\* the outer loop: for (let i = 0; i < 8; i++), from row i on
RECURSIVE EvalFrom(_, _, _)
EvalFrom(l, b, i) ==
  IF i > 7 THEN 0
  ELSE EvalRow(l, b, i, 0) + EvalFrom(l, b, i + 1)

evaluateBoard(l, b) == EvalFrom(l, b, 0)

(***************************************************************************)
(* Rules engine (stand-in for chess.js): a game object holds the board,    *)
(* the side to move and the history the undo reads.  Pieces move by their  *)
(* chess geometry; a pawn steps one square and promotes to a queen; kings  *)
(* are never captured and there is no notion of check.                     *)
(***************************************************************************)
Game(board, turn) == [board |-> board, turn |-> turn, hist |-> <<>>]

KnightOffsets ==
  << <<-2,-1>>, <<-2,1>>, <<-1,-2>>, <<-1,2>>, <<1,-2>>, <<1,2>>, <<2,-1>>, <<2,1>> >>
RookDirs == << <<-1,0>>, <<0,-1>>, <<0,1>>, <<1,0>> >>
BishopDirs == << <<-1,-1>>, <<-1,1>>, <<1,-1>>, <<1,1>> >>
QueenDirs == RookDirs \o BishopDirs

RECURSIVE Flatten(_)
Flatten(ss) == IF ss = <<>> THEN <<>> ELSE Head(ss) \o Flatten(Tail(ss))

\* a piece of colour c may land on (i, j): empty, or an enemy piece that is no king
CanLand(board, c, i, j) ==
  /\ OnBoard(i, j)
  /\ board[Sq(i, j)].color # c
  /\ board[Sq(i, j)].type # "k"

StepTargets(board, c, i, j, offsets) ==
  LET at == [k \in 1..Len(offsets) |-> <<i + offsets[k][1], j + offsets[k][2]>>]
      ok == SelectSeq(at, LAMBDA t : CanLand(board, c, t[1], t[2]))
  IN [k \in 1..Len(ok) |-> Sq(ok[k][1], ok[k][2])]

RECURSIVE Ray(_, _, _, _, _, _)
Ray(board, c, i, j, di, dj) ==
  LET ni == i + di
      nj == j + dj
  IN IF ~OnBoard(ni, nj) THEN <<>>
     ELSE IF board[Sq(ni, nj)] = NoPiece
            THEN <<Sq(ni, nj)>> \o Ray(board, c, ni, nj, di, dj)
     ELSE IF CanLand(board, c, ni, nj) THEN <<Sq(ni, nj)>>
     ELSE <<>>

SlideTargets(board, c, i, j, dirs) ==
  Flatten([k \in 1..Len(dirs) |-> Ray(board, c, i, j, dirs[k][1], dirs[k][2])])

\* white pawns walk towards row 0, black pawns towards row 7
PawnDir(c) == IF c = "w" THEN -1 ELSE 1

PawnTargets(board, c, i, j) ==
  LET ni == i + PawnDir(c)
      fwd == IF OnBoard(ni, j) /\ board[Sq(ni, j)] = NoPiece THEN <<Sq(ni, j)>> ELSE <<>>
      cap(nj) == IF CanLand(board, c, ni, nj) /\ board[Sq(ni, nj)] # NoPiece
                   THEN <<Sq(ni, nj)>> ELSE <<>>
  IN fwd \o cap(j - 1) \o cap(j + 1)

TargetsOf(board, sq) ==
  LET piece == board[sq]
      c == piece.color
      i == RowOf(sq)
      j == ColOf(sq)
  IN CASE piece.type = "p" -> PawnTargets(board, c, i, j)
       [] piece.type = "n" -> StepTargets(board, c, i, j, KnightOffsets)
       [] piece.type = "k" -> StepTargets(board, c, i, j, QueenDirs)
       [] piece.type = "r" -> SlideTargets(board, c, i, j, RookDirs)
       [] piece.type = "b" -> SlideTargets(board, c, i, j, BishopDirs)
       [] piece.type = "q" -> SlideTargets(board, c, i, j, QueenDirs)
       [] OTHER -> <<>>

MovesFrom(board, turn, sq) ==
  IF board[sq].color # turn THEN <<>>
  ELSE LET ts == TargetsOf(board, sq)
       IN [k \in 1..Len(ts) |-> [from |-> sq, to |-> ts[k]]]

\* the moves of the pieces of one row, from the left
MovesOfRow(b, turn, i) == Flatten([k \in 1..8 |-> MovesFrom(b, turn, Sq(i, k - 1))])

\* game.moves(): the legal moves of the side to move, in a fixed order
moves(g) == Flatten([k \in 1..8 |-> MovesOfRow(g.board, g.turn, k - 1)])

Promotes(piece, to) == piece.type = "p" /\ RowOf(to) \in {0, 7}

\* game.move(m)
move(g, m) ==
  LET piece == g.board[m.from]
      placed == IF Promotes(piece, m.to) THEN Piece(piece.color, "q") ELSE piece
  IN [board |-> [g.board EXCEPT ![m.from] = NoPiece, ![m.to] = placed],
      turn |-> Other(g.turn),
      hist |-> Append(g.hist, [from |-> m.from, to |-> m.to, piece |-> piece,
                               captured |-> g.board[m.to]])]

\* game.undo(): takes back the last move of the history; nothing to take back: no change
undo(g) ==
  IF g.hist = <<>> THEN g
  ELSE LET h == g.hist[Len(g.hist)]
       IN [board |-> [g.board EXCEPT ![h.to] = h.captured, ![h.from] = h.piece],
           turn |-> Other(g.turn),
           hist |-> SubSeq(g.hist, 1, Len(g.hist) - 1)]

\* draw by insufficient material: bare kings, or bare kings and one minor piece
InsufficientMaterial(board) ==
  LET others == {sq \in Squares : board[sq] # NoPiece /\ board[sq].type # "k"}
  IN \/ others = {}
     \/ /\ Cardinality(others) = 1
        /\ \A sq \in others : board[sq].type \in {"n", "b"}

\* game.isGameOver(): no legal move (mate, stalemate) or a draw
isGameOver(g) == moves(g) = <<>> \/ InsufficientMaterial(g.board)

(***************************************************************************)
(* Positions the selection is called on                                    *)
(***************************************************************************)
\* the board holding the pieces ps, each <<row, column, colour, type>>
BoardOf(ps) ==
  [sq \in Squares |->
     IF \E p \in ps : Sq(p[1], p[2]) = sq
       THEN LET p == CHOOSE q \in ps : Sq(q[1], q[2]) = sq IN Piece(p[3], p[4])
       ELSE NoPiece]

StartPositions ==
  { \* a white pawn may take an undefended queen, or step past it
    Game(BoardOf({<<4,3,"w","p">>, <<3,4,"b","q">>, <<1,0,"b","p">>, <<2,0,"w","p">>}), "w"),
    \* the same with the colours swapped
    Game(BoardOf({<<3,3,"b","p">>, <<4,4,"w","q">>, <<6,0,"w","p">>, <<5,0,"b","p">>}), "b"),
    \* the side to move has no legal move
    Game(BoardOf({<<4,0,"w","p">>, <<3,0,"b","p">>}), "w"),
    \* bare kings: drawn, yet the side to move has legal moves
    Game(BoardOf({<<7,0,"w","k">>, <<0,7,"b","k">>}), "b"),
    \* knights and pawns, nothing to take at once
    Game(BoardOf({<<7,0,"w","n">>, <<6,7,"w","p">>, <<0,7,"b","n">>, <<1,0,"b","p">>}), "w"),
    \* pawns facing each other: takes and retakes
    Game(BoardOf({<<4,3,"w","p">>, <<3,4,"b","p">>, <<2,3,"b","p">>, <<5,4,"w","p">>}), "b"),
    \* a pawn of each side one step from promotion, a knight to keep the other busy
    Game(BoardOf({<<1,5,"w","p">>, <<7,7,"w","n">>, <<6,2,"b","p">>, <<0,0,"b","n">>}), "w") }

(***************************************************************************)
(* State                                                                   *)
(***************************************************************************)
VARIABLES
  lib,            \* which version of the engine is running
  difficulty,     \* the tier of the call
  game,           \* the Chess object handed to getBestMove (mutated in place)
  pc,             \* where getBestMove stands
  cands,          \* moves / possibleMoves: the candidate array
  order,          \* the rearrangement the shuffle made of the legal-move list
  depth,          \* the ply depth of the tier
  isWhite,        \* part_004: the side to move was white when the call started
  idx,            \* position of the candidate loop
  bestMove,       \* part_003: kept move; part_004: the first loop's kept move
  bestValue,
  bestMoveFound,  \* part_004: the second loop's kept move
  bestValFound,
  stack,          \* the minimax frames, the innermost last
  result,         \* what getBestMove returned
  callNo,         \* how many calls were started on this game object
  game0,          \* the position as it was when the call started
  first,          \* position, shuffle and result of the first call
  scored,         \* the values minimax returned to the deciding loop, in scoring order
  count,          \* calls made by the running getBestMove: moves applied, undone,
                  \* minimax and evaluator calls, cutoffs that pruned a sibling
  board,          \* the board handed to the evaluator alone
  score,          \* what the evaluator returned for it
  rejects,        \* the candidates game.move() refuses (none, with a sound rules engine)
  app,            \* the component that runs the game: ChessBoardGame or GameRoom
  mode,           \* its game mode
  shown,          \* its React state `game`: the position of the last render
  timers,         \* the armed setTimeout callbacks of the AI effect, with their closures
  running,        \* the timer whose callback is executing
  humanMoves,     \* board moves accepted so far
  resets,         \* Reset Board / Rematch clicks so far
  awaiting,       \* a human move was accepted in AI mode and the reply is not yet applied
  fresh,          \* the board was reset and no board move was accepted since
  log,            \* what happened: the last event, the timers a reset found armed, the
                  \* resets before the arming and the applying of the last AI reply
  current,        \* the calculator's display: the operand being entered, or the result
  previous,       \* its left operand, or null
  operation,      \* its pending operator, or null
  history,        \* its records of completed calculations, the newest first
  showHistory,    \* whether its history overlay is open
  keys,           \* buttons and keys pressed on it so far
  role,           \* online: each participant's playerRole
  view,           \* online: each participant's React state `game`
  record,         \* online: the fen of the shared game record
  writes,         \* online: the updates of the record sent and not yet committed
  inbox,          \* online: the realtime events not yet delivered to each participant
  boardMoves,     \* online: board moves applied so far
  rematches       \* online: Reset Board / Rematch clicks so far

vars == <<lib, difficulty, game, pc, cands, order, depth, isWhite, idx, bestMove, bestValue,
          bestMoveFound, bestValFound, stack, result, callNo, game0, first, scored,
          count, board, score, rejects, app, mode, shown, timers, running, humanMoves,
          resets, awaiting, fresh, log, current, previous, operation, history, showHistory,
          keys, role, view, record, writes, inbox, boardMoves, rematches>>

selVars == <<lib, difficulty, game, pc, cands, order, depth, isWhite, idx, bestMove, bestValue,
             bestMoveFound, bestValFound, stack, result, callNo, game0, first, scored,
             count>>
evalVars == <<board, score>>
appVars == <<app, mode, shown, timers, running, humanMoves, resets, awaiting, fresh, log>>
calcVars == <<current, previous, operation, history, showHistory, keys>>
netVars == <<role, view, record, writes, inbox, boardMoves, rematches>>
\* the calculator and the online game
otherVars == <<calcVars, netVars>>
\* what surrounds a call of getBestMove
envVars == <<rejects, appVars, otherVars>>
\* the chess game, its engine and its online play
chessVars == <<selVars, evalVars, rejects, appVars, netVars>>
\* everything but the online game
offlineVars == <<selVars, evalVars, rejects, appVars, calcVars>>

\* null, and undefined (what reading an array outside its length gives)
NoMove == [from |-> -1, to |-> -1]
Undefined == [from |-> -2, to |-> -2]
\* arr[k], k counted from 0
ArrayAt(arr, k) == IF k + 1 \in 1..Len(arr) THEN arr[k + 1] ELSE Undefined
NoScore == [set |-> FALSE, value |-> 0]
ZeroCount == [applied |-> 0, undone |-> 0, minimax |-> 0, evaluate |-> 0, pruned |-> 0]

(***************************************************************************)
(* minimax                                                                 *)
(***************************************************************************)
\* stands for the IEEE Infinity of the second loop of part_004: above every score
Infinity == 1000000

Max(a, b) == IF a >= b THEN a ELSE b
Min(a, b) == IF a <= b THEN a ELSE b

\* the initial bestEval of a minimax node
Sentinel(l) == IF l = "part_003" THEN 9999 ELSE 99999

\* depth === 0 || game.isGameOver()
Terminal(g, d) == d = 0 \/ isGameOver(g)

\* what minimax returns at a terminal node
LeafValue(l, g) == -evaluateBoard(l, g.board)

\* the depth handed on as it is
ChildDepthSame(d) == d

\* depth - 1
ChildDepth(d) == d - 1

\* the comparison turned round: the loop breaks while the window is still open
CutoffReversed(alpha, beta) == alpha <= beta

\* if (beta <= alpha) break
Cutoff(alpha, beta) == beta <= alpha

\* the frame of minimax(g, d, alpha, beta, isMaximizingPlayer) once it has passed its
\* first lines: either about to return the leaf value, or standing before its loop
Enter(l, g, d, alpha, beta, isMax) ==
  IF Terminal(g, d)
    THEN [at |-> "ret", depth |-> d, alpha |-> alpha, beta |-> beta, isMax |-> isMax,
          moves |-> <<>>, i |-> 1, bestEval |-> 0, val |-> LeafValue(l, g),
          leaf |-> TRUE, entry |-> g]
    ELSE [at |-> "loop", depth |-> d, alpha |-> alpha, beta |-> beta, isMax |-> isMax,
          moves |-> moves(g), i |-> 1,
          bestEval |-> IF isMax THEN -Sentinel(l) ELSE Sentinel(l), val |-> 0,
          leaf |-> FALSE, entry |-> g]

\* the calls a fresh frame has made
Entered(c, f) ==
  [c EXCEPT !.minimax = @ + 1, !.evaluate = @ + (IF f.leaf THEN 1 ELSE 0)]

\* the frame f after its child returned ev: bestEval, the bound, the break
Resume(l, f, ev) ==
  LET be == IF f.isMax THEN Max(f.bestEval, ev) ELSE Min(f.bestEval, ev)
      upd == IF l = "part_003" THEN be ELSE ev
      a == IF f.isMax THEN Max(f.alpha, upd) ELSE f.alpha
      b == IF f.isMax THEN f.beta ELSE Min(f.beta, upd)
  IN IF Cutoff(a, b) \/ f.i = Len(f.moves)
       THEN [f EXCEPT !.bestEval = be, !.alpha = a, !.beta = b, !.at = "ret", !.val = be]
       ELSE [f EXCEPT !.bestEval = be, !.alpha = a, !.beta = b, !.i = @ + 1]

\* the child's return cut siblings off
Pruned(f, g) == g.at = "ret" /\ f.i < Len(f.moves)

Top == stack[Len(stack)]
Below == SubSeq(stack, 1, Len(stack) - 1)

\* game.move(move); minimax(game, depth - 1, alpha, beta, other side)
MinimaxDescend ==
  /\ stack # <<>>
  /\ Top.at = "loop"
  /\ LET f == Top
         g == move(game, f.moves[f.i])
         child == Enter(lib, g, ChildDepth(f.depth), f.alpha, f.beta, ~f.isMax)
     IN /\ game' = g
        /\ stack' = Append(stack, child)
        /\ count' = Entered([count EXCEPT !.applied = @ + 1], child)
  /\ UNCHANGED <<lib, difficulty, pc, cands, order, depth, isWhite, idx, bestMove,
                 bestValue, bestMoveFound, bestValFound, result, callNo, game0, first>>
  /\ UNCHANGED scored
  /\ UNCHANGED <<evalVars, envVars>>

\* the break placed before game.undo(): a cutoff leaves the move on the board
MinimaxReturnBreakFirst ==
  /\ Len(stack) > 1
  /\ Top.at = "ret"
  /\ LET f == stack[Len(stack) - 1]
         g == Resume(lib, f, Top.val)
         cut == Pruned(f, g)
     IN /\ game' = IF cut THEN game ELSE undo(game)
        /\ stack' = [Below EXCEPT ![Len(stack) - 1] = g]
        /\ count' = [count EXCEPT !.undone = @ + (IF cut THEN 0 ELSE 1),
                                  !.pruned = @ + (IF cut THEN 1 ELSE 0)]
  /\ UNCHANGED <<lib, difficulty, pc, cands, order, depth, isWhite, idx, bestMove,
                 bestValue, bestMoveFound, bestValFound, result, callNo, game0, first>>
  /\ UNCHANGED scored
  /\ UNCHANGED <<evalVars, envVars>>

\* a nested minimax returns: game.undo() and the rest of the caller's loop body
MinimaxReturn ==
  /\ Len(stack) > 1
  /\ Top.at = "ret"
  /\ LET f == stack[Len(stack) - 1]
         g == Resume(lib, f, Top.val)
     IN /\ game' = undo(game)
        /\ stack' = [Below EXCEPT ![Len(stack) - 1] = g]
        /\ count' = [count EXCEPT !.undone = @ + 1,
                                  !.pruned = @ + (IF Pruned(f, g) THEN 1 ELSE 0)]
  /\ UNCHANGED <<lib, difficulty, pc, cands, order, depth, isWhite, idx, bestMove,
                 bestValue, bestMoveFound, bestValFound, result, callNo, game0, first>>
  /\ UNCHANGED scored
  /\ UNCHANGED <<evalVars, envVars>>

(***************************************************************************)
(* getBestMove                                                             *)
(***************************************************************************)
\* the assignments to depth left out: every tier keeps the initial depth
TierDepthInitial(l, d) == 1

\* the ply depth of a tier
TierDepth(l, d) ==
  IF l = "part_003"
    THEN (CASE d = "Easy" -> 2 [] d = "Hard" -> 3 [] d = "Master" -> 4 [] OTHER -> 1)
    ELSE (CASE d = "Easy" -> 1 [] d = "Hard" -> 3 [] d = "Master" -> 3 [] OTHER -> 1)

\* Math.floor(Math.random()) * n: always the first move
RandomIndexFirst(n) == {0}

\* Math.round in the place of Math.floor: the index n becomes possible
RandomIndexRound(n) == 0..n

\* Math.floor(Math.random() * n), Math.random() in [0, 1)
RandomIndex(n) == IF n = 0 THEN {0} ELSE 0..(n - 1)

Perms(n) == {p \in [1..n -> 1..n] : \A a, b \in 1..n : p[a] = p[b] => a = b}

Identity(n) == [k \in 1..n |-> k]

\* no rearrangement: the list as the rules engine gave it
OrdersAsListed(l, n) == {Identity(n)}

\* moves.sort(() => Math.random() - 0.5) rearranges the array in place, in some order;
\* part_004 runs over the list as the rules engine gave it
Orders(l, n) == IF l = "part_003" THEN Perms(n) ELSE {Identity(n)}

\* the array ms rearranged by p
Arranged(ms, p) == [k \in 1..Len(ms) |-> ms[p[k]]]

\* the early return left out
NoLegalMoveUnchecked(ms) == FALSE

\* moves.length === 0
NoLegalMove(ms) == Len(ms) = 0

\* the bounds the root hands to minimax
Window(l, at) ==
  IF l = "part_003" THEN 10000 ELSE IF at = "loop1" THEN 100000 ELSE Infinity

\* the flag of the mover itself handed on
RootFlagOfMover(l, g, white) == IF l = "part_003" THEN g.turn = "b" ELSE white

\* the isMaximizingPlayer flag the root hands to minimax; g is the game after the move
RootFlag(l, g, white) == IF l = "part_003" THEN g.turn = "w" ELSE ~white

Unset == [game |-> Game(EmptyBoard, "w"), order |-> <<>>, result |-> NoMove]

\* the record of the first call, taken when it returns r
Ended(g, p, r) == IF callNo = 1 THEN [game |-> g, order |-> p, result |-> r] ELSE first

\* bestValue kept outside the function: a later call starts from the last call's value
InitialBestStale(l) == bestValue

\* let bestValue = -9999 (part_004: -99999)
InitialBest(l) == -Sentinel(l)

\* const moves = game.moves(); if (moves.length === 0) return null
ReturnNull ==
  /\ pc = "idle"
  /\ NoLegalMove(moves(game))
  /\ pc' = "done"
  /\ result' = NoMove
  /\ game0' = game
  /\ cands' = moves(game)
  /\ order' = <<>>
  /\ count' = ZeroCount
  /\ first' = Ended(game, <<>>, NoMove)
  /\ UNCHANGED <<lib, difficulty, game, depth, isWhite, idx, bestMove, bestValue,
                 bestMoveFound, bestValFound, stack, callNo>>
  /\ UNCHANGED scored
  /\ UNCHANGED <<evalVars, envVars>>

\* Beginner: a random legal move
ReturnRandom ==
  /\ pc = "idle"
  /\ ~NoLegalMove(moves(game))
  /\ difficulty = "Beginner"
  /\ game0' = game
  /\ \E randomIndex \in RandomIndex(Len(moves(game))) :
       /\ result' = ArrayAt(moves(game), randomIndex)
       /\ first' = Ended(game, <<>>, ArrayAt(moves(game), randomIndex))
  /\ pc' = "done"
  /\ cands' = moves(game)
  /\ order' = <<>>
  /\ count' = ZeroCount
  /\ UNCHANGED <<lib, difficulty, game, depth, isWhite, idx, bestMove, bestValue,
                 bestMoveFound, bestValFound, stack, callNo>>
  /\ UNCHANGED scored
  /\ UNCHANGED <<evalVars, envVars>>

\* the other tiers: the depth, the initial best, the (shuffled) candidates
StartSearch ==
  /\ pc = "idle"
  /\ ~NoLegalMove(moves(game))
  /\ difficulty # "Beginner"
  /\ \E p \in Orders(lib, Len(moves(game))) :
       /\ order' = p
       /\ cands' = Arranged(moves(game), p)
  /\ depth' = TierDepth(lib, difficulty)
  /\ isWhite' = (game.turn = "w")
  /\ bestMove' = NoMove
  /\ bestValue' = InitialBest(lib)
  /\ bestMoveFound' = NoMove
  /\ bestValFound' = 0
  /\ idx' = 1
  /\ pc' = IF lib = "part_003" THEN "loop" ELSE "loop1"
  /\ game0' = game
  /\ count' = ZeroCount
  /\ UNCHANGED <<lib, difficulty, game, stack, result, callNo, first>>
  /\ scored' = <<>>
  /\ UNCHANGED <<evalVars, envVars>>

\* the head of a candidate loop: game.move(move) and the call of minimax
TryCandidate ==
  /\ pc \in {"loop", "loop1", "loop2"}
  /\ stack = <<>>
  /\ idx <= Len(cands)
  /\ cands[idx] \notin rejects
  /\ LET g == move(game, cands[idx])
         w == Window(lib, pc)
         f == Enter(lib, g, ChildDepth(depth), -w, w, RootFlag(lib, g, isWhite))
     IN /\ game' = g
        /\ stack' = <<f>>
        /\ count' = Entered([count EXCEPT !.applied = @ + 1], f)
  /\ UNCHANGED <<lib, difficulty, pc, cands, order, depth, isWhite, idx, bestMove,
                 bestValue, bestMoveFound, bestValFound, result, callNo, game0, first>>
  /\ UNCHANGED scored
  /\ UNCHANGED <<evalVars, envVars>>

\* game.move(move) refuses the candidate: it throws, nothing in getBestMove catches it,
\* and the call ends without a return value (the game is as it was: nothing was applied)
MoveThrows ==
  /\ pc \in {"loop", "loop1", "loop2"}
  /\ stack = <<>>
  /\ idx <= Len(cands)
  /\ cands[idx] \in rejects
  /\ pc' = "thrown"
  /\ UNCHANGED <<lib, difficulty, game, cands, order, depth, isWhite, idx, bestMove,
                 bestValue, bestMoveFound, bestValFound, stack, result, callNo, game0,
                 first, count>>
  /\ UNCHANGED scored
  /\ UNCHANGED <<evalVars, envVars>>

\* part_003: the candidate is better for the side that just moved
Better003(g, boardValue, value, kept) ==
  IF g.turn = "b" THEN boardValue > value
  ELSE kept = NoMove \/ boardValue < value

\* part_003: the rest of the loop body once minimax has returned
Scored003 ==
  /\ pc = "loop"
  /\ Len(stack) = 1
  /\ Top.at = "ret"
  /\ LET boardValue == Top.val
         keep == Better003(game, boardValue, bestValue, bestMove)
     IN /\ bestValue' = IF keep THEN boardValue ELSE bestValue
        /\ bestMove' = IF keep THEN cands[idx] ELSE bestMove
  /\ game' = undo(game)
  /\ count' = [count EXCEPT !.undone = @ + 1]
  /\ stack' = <<>>
  /\ idx' = idx + 1
  /\ UNCHANGED <<lib, difficulty, pc, cands, order, depth, isWhite, bestMoveFound,
                 bestValFound, result, callNo, game0, first>>
  /\ scored' = Append(scored, Top.val)
  /\ UNCHANGED <<evalVars, envVars>>

\* part_003: if (!bestMove) return moves[0]; return bestMove
Return003 ==
  /\ pc = "loop"
  /\ stack = <<>>
  /\ idx > Len(cands)
  /\ LET r == IF bestMove = NoMove THEN ArrayAt(cands, 0) ELSE bestMove
     IN /\ result' = r
        /\ first' = Ended(game0, order, r)
  /\ pc' = "done"
  /\ UNCHANGED <<lib, difficulty, game, cands, order, depth, isWhite, idx, bestMove,
                 bestValue, bestMoveFound, bestValFound, stack, callNo, game0, count>>
  /\ UNCHANGED scored
  /\ UNCHANGED <<evalVars, envVars>>

\* part_004, first loop: game.undo(); only a white mover keeps anything
Scored004First ==
  /\ pc = "loop1"
  /\ Len(stack) = 1
  /\ Top.at = "ret"
  /\ LET boardValue == Top.val
         keep == isWhite /\ boardValue > bestValue
     IN /\ bestValue' = IF keep THEN boardValue ELSE bestValue
        /\ bestMove' = IF keep THEN cands[idx] ELSE bestMove
  /\ game' = undo(game)
  /\ count' = [count EXCEPT !.undone = @ + 1]
  /\ stack' = <<>>
  /\ idx' = idx + 1
  /\ UNCHANGED <<lib, difficulty, pc, cands, order, depth, isWhite, bestMoveFound,
                 bestValFound, result, callNo, game0, first>>
  /\ UNCHANGED scored
  /\ UNCHANGED <<evalVars, envVars>>

\* part_004: the first loop is over, the second starts from possibleMoves[0]
Rerun004 ==
  /\ pc = "loop1"
  /\ stack = <<>>
  /\ idx > Len(cands)
  /\ pc' = "loop2"
  /\ idx' = 1
  /\ bestMoveFound' = ArrayAt(cands, 0)
  /\ bestValFound' = IF isWhite THEN -Infinity ELSE Infinity
  /\ UNCHANGED <<lib, difficulty, game, cands, order, depth, isWhite, bestMove,
                 bestValue, stack, result, callNo, game0, first, count>>
  /\ scored' = <<>>
  /\ UNCHANGED <<evalVars, envVars>>

\* a tie replaces the kept candidate too
Better004OrEqual(white, val, found) == IF white THEN val >= found ELSE val <= found

\* part_004: the candidate is strictly better for the mover
Better004(white, val, found) == IF white THEN val > found ELSE val < found

\* part_004, second loop: game.undo() and the strict comparison
Scored004 ==
  /\ pc = "loop2"
  /\ Len(stack) = 1
  /\ Top.at = "ret"
  /\ LET val == Top.val
         keep == Better004(isWhite, val, bestValFound)
     IN /\ bestValFound' = IF keep THEN val ELSE bestValFound
        /\ bestMoveFound' = IF keep THEN cands[idx] ELSE bestMoveFound
  /\ game' = undo(game)
  /\ count' = [count EXCEPT !.undone = @ + 1]
  /\ stack' = <<>>
  /\ idx' = idx + 1
  /\ UNCHANGED <<lib, difficulty, pc, cands, order, depth, isWhite, bestMove, bestValue,
                 result, callNo, game0, first>>
  /\ scored' = Append(scored, Top.val)
  /\ UNCHANGED <<evalVars, envVars>>

\* part_004: return bestMoveFound
Return004 ==
  /\ pc = "loop2"
  /\ stack = <<>>
  /\ idx > Len(cands)
  /\ result' = bestMoveFound
  /\ first' = Ended(game0, order, bestMoveFound)
  /\ pc' = "done"
  /\ UNCHANGED <<lib, difficulty, game, cands, order, depth, isWhite, idx, bestMove,
                 bestValue, bestMoveFound, bestValFound, stack, callNo, game0, count>>
  /\ UNCHANGED scored
  /\ UNCHANGED <<evalVars, envVars>>

\* the caller calls getBestMove again, with the same game object and tier
CallAgain ==
  /\ pc = "done"
  /\ callNo < MaxCalls
  /\ pc' = "idle"
  /\ callNo' = callNo + 1
  /\ result' = NoMove
  /\ cands' = <<>>
  /\ order' = <<>>
  /\ depth' = 0
  /\ isWhite' = FALSE
  /\ idx' = 0
  /\ bestMove' = NoMove
  /\ bestMoveFound' = NoMove
  /\ bestValFound' = 0
  /\ count' = ZeroCount
  /\ UNCHANGED <<lib, difficulty, game, stack, game0, first, bestValue>>
  /\ scored' = <<>>
  /\ UNCHANGED <<evalVars, envVars>>

(***************************************************************************)
(* The evaluator alone, on boards put together piece by piece              *)
(***************************************************************************)
Placed(b) == Cardinality({sq \in Squares : b[sq] # NoPiece})

\* sq is next to an occupied square in its row or column (the first piece may go anywhere)
Touches(b, sq) ==
  \/ Placed(b) = 0
  \/ \E o \in Squares :
       /\ b[o] # NoPiece
       /\ \/ RowOf(o) = RowOf(sq) /\ ColOf(o) - ColOf(sq) \in {-1, 1}
          \/ ColOf(o) = ColOf(sq) /\ RowOf(o) - RowOf(sq) \in {-1, 1}

PutPiece ==
  /\ pc = "eval"
  /\ Placed(board) < MaxPlaced
  /\ \E sq \in {x \in Squares : board[x] = NoPiece /\ Touches(board, x)} :
       \E c \in Colors, t \in Types : board' = [board EXCEPT ![sq] = Piece(c, t)]
  /\ score' = NoScore
  /\ UNCHANGED <<selVars, envVars>>

Evaluate ==
  /\ pc = "eval"
  /\ ~score.set
  /\ score' = [set |-> TRUE, value |-> evaluateBoard(lib, board)]
  /\ UNCHANGED board
  /\ UNCHANGED <<selVars, envVars>>

(***************************************************************************)
(* The application around the engine: ChessBoardGame.tsx and GameRoom.tsx.  *)
(* JavaScript runs one handler at a time; React re-renders and runs the     *)
(* effects whose dependencies changed before the next event is handled, so  *)
(* a handler is one step together with the render and effects it causes.    *)
(***************************************************************************)
Apps == {"ChessBoardGame", "GameRoom"}
Modes == {"ai", "local"}

MaxHumanMoves == 2
MaxResets == 1

\* stands for new Chess(), the starting position: white to move, a capture that
\* ends the game at once, and quiet moves
AppStart == Game(BoardOf({<<5,0,"w","p">>, <<6,7,"w","p">>, <<4,1,"b","p">>}), "w")

\* game.fen(): the board and the side to move, without the moves played
Fen(g) == [board |-> g.board, turn |-> g.turn]
\* new Chess(fen)
FromFen(f) == Game(f.board, f.turn)

NoTimer == [game |-> Game(EmptyBoard, "w"), epoch |-> 0]
NoLog == [last |-> "none", dropped |-> 0, armed |-> 0, applied |-> 0]

\* an effect without its cleanup: the old timer stays armed
CleanupNothing(ts) == ts

\* return () => clearTimeout(timeout)
Cleanup(ts) == <<>>

\* an effect that arms the timer whoever is to move
AiEffectAnyTurn(old, new, ts, e) ==
  IF Fen(new) = Fen(old) THEN ts
  ELSE IF mode = "ai" /\ ~isGameOver(new)
         THEN Append(Cleanup(ts), [game |-> new, epoch |-> e])
         ELSE Cleanup(ts)

\* the AI effect after a render that changed the position from old to new: the
\* cleanup of the last run, then a timer if it is black's turn in a running AI game;
\* e is the number of resets so far
AiEffect(old, new, ts, e) ==
  IF Fen(new) = Fen(old) THEN ts
  ELSE IF mode = "ai" /\ new.turn = "b" /\ ~isGameOver(new)
         THEN Append(Cleanup(ts), [game |-> new, epoch |-> e])
         ELSE Cleanup(ts)

\* every drop goes through
MayMoveAlways(a, md, g) == TRUE

\* onDrop / handleBoardMove let the board move through
MayMove(a, md, g) ==
  IF a = "ChessBoardGame" THEN ~(md = "ai" /\ g.turn = "b")
  ELSE ~(md = "ai" /\ g.turn # "w")

\* makeMove / safeMove: the move made on a copy of the position
makeMove(base, m) == move(FromFen(Fen(base)), m)

\* a legal move on the board (an illegal one changes nothing)
HumanMove ==
  /\ pc = "app"
  /\ humanMoves < MaxHumanMoves
  /\ MayMove(app, mode, shown)
  /\ \E m \in {moves(shown)[k] : k \in 1..Len(moves(shown))} :
       /\ shown' = makeMove(shown, m)
       /\ timers' = AiEffect(shown, makeMove(shown, m), timers, resets)
  /\ humanMoves' = humanMoves + 1
  /\ awaiting' = (mode = "ai" /\ shown.turn = "w")
  /\ fresh' = FALSE
  /\ log' = [log EXCEPT !.last = "human"]
  /\ UNCHANGED <<app, mode, running, resets, rejects>>
  /\ UNCHANGED otherVars
  /\ UNCHANGED <<selVars, evalVars>>

\* Reset Board (ChessBoardGame), Rematch (GameRoom, shown when the game is over)
Reset ==
  /\ pc = "app"
  /\ resets < MaxResets
  /\ app = "GameRoom" => isGameOver(shown)
  /\ shown' = AppStart
  /\ timers' = AiEffect(shown, AppStart, timers, resets + 1)
  /\ resets' = resets + 1
  /\ awaiting' = FALSE
  /\ fresh' = TRUE
  /\ log' = [log EXCEPT !.last = "reset", !.dropped = @ + Len(timers)]
  /\ UNCHANGED <<app, mode, running, humanMoves, rejects>>
  /\ UNCHANGED otherVars
  /\ UNCHANGED <<selVars, evalVars>>

\* an armed timer fires: its callback calls getBestMove, ChessBoardGame on the game
\* object of its render, GameRoom on a copy
TimerFire ==
  /\ pc = "app"
  /\ timers # <<>>
  /\ \E k \in 1..Len(timers) :
       /\ running' = timers[k]
       /\ timers' = SubSeq(timers, 1, k - 1) \o SubSeq(timers, k + 1, Len(timers))
       /\ game' = IF app = "ChessBoardGame" THEN timers[k].game
                  ELSE FromFen(Fen(timers[k].game))
  /\ pc' = "idle"
  /\ UNCHANGED <<lib, difficulty, cands, order, depth, isWhite, idx, bestMove, bestValue,
                 bestMoveFound, bestValFound, stack, result, callNo, game0, first, scored,
                 count>>
  /\ UNCHANGED <<app, mode, shown, humanMoves, resets, awaiting, fresh, log, rejects>>
  /\ UNCHANGED otherVars
  /\ UNCHANGED evalVars

\* getBestMove has returned: if (bestMove) makeMove(bestMove), on the position of
\* the callback's render
Reply ==
  /\ pc = "done"
  /\ LET base == IF app = "ChessBoardGame" THEN game ELSE running.game
     IN IF result # NoMove
          THEN /\ shown' = makeMove(base, result)
               /\ timers' = AiEffect(shown, makeMove(base, result), timers, resets)
               /\ awaiting' = FALSE
               /\ log' = [log EXCEPT !.last = "reply", !.armed = running.epoch,
                                     !.applied = resets]
          ELSE UNCHANGED <<shown, timers, awaiting, log>>
  /\ running' = NoTimer
  /\ pc' = "app"
  /\ game' = Game(EmptyBoard, "w")
  /\ game0' = Game(EmptyBoard, "w")
  /\ cands' = <<>>
  /\ order' = <<>>
  /\ depth' = 0
  /\ isWhite' = FALSE
  /\ idx' = 0
  /\ bestMove' = NoMove
  /\ bestValue' = 0
  /\ bestMoveFound' = NoMove
  /\ bestValFound' = 0
  /\ scored' = <<>>
  /\ result' = NoMove
  /\ first' = Unset
  /\ count' = ZeroCount
  /\ UNCHANGED <<lib, difficulty, stack, callNo>>
  /\ UNCHANGED <<app, mode, humanMoves, resets, fresh, rejects>>
  /\ UNCHANGED otherVars
  /\ UNCHANGED evalVars

(***************************************************************************)
(* The calculator: src/unnamed/part_001.  Strings are sequences of          *)
(* characters; numbers are exact fractions, rounded where the code rounds.  *)
(***************************************************************************)
MaxKeys == 4

\* the keys followed: the digit buttons 0, 1 and 2, and every operator ("*" stands
\* for the button marked with the multiplication sign, "/" for the division sign)
DigitKeys == {"0", "1", "2"}
Operators == {"+", "-", "*", "/", "%"}

\* null, for previous and operation
Null == <<"null">>

\* the entries calculate keeps of the old history: prev.slice(0, 9)
HistoryKept == 9

IsDigit(c) == c \in {"0", "1", "2", "3", "4", "5", "6", "7", "8", "9"}
DigitVal(c) ==
  CASE c = "0" -> 0 [] c = "1" -> 1 [] c = "2" -> 2 [] c = "3" -> 3 [] c = "4" -> 4
    [] c = "5" -> 5 [] c = "6" -> 6 [] c = "7" -> 7 [] c = "8" -> 8 [] c = "9" -> 9
DigitChar(v) == <<"0", "1", "2", "3", "4", "5", "6", "7", "8", "9">>[v + 1]

RECURSIVE Pow10(_)
Pow10(k) == IF k = 0 THEN 1 ELSE 10 * Pow10(k - 1)

\* the digits of s from position i on: how many, and their value
RECURSIVE DigitRun(_, _)
DigitRun(s, i) == IF i <= Len(s) /\ IsDigit(s[i]) THEN 1 + DigitRun(s, i + 1) ELSE 0
RECURSIVE RunValue(_, _, _)
RunValue(s, i, n) ==
  IF n = 0 THEN 0 ELSE RunValue(s, i, n - 1) * 10 + DigitVal(s[i + n - 1])

\* the numbers of JavaScript that the calculator meets
NaN == [k |-> "nan", neg |-> FALSE, n |-> 0, d |-> 1]
Inf(neg) == [k |-> "inf", neg |-> neg, n |-> 0, d |-> 1]
Fin(neg, n, d) == [k |-> "fin", neg |-> neg, n |-> n, d |-> d]

InfinityText == <<"I", "n", "f", "i", "n", "i", "t", "y">>
NaNText == <<"N", "a", "N">>

\* parseFloat(s): the longest prefix that is a number, NaN if there is none
parseFloat(s) ==
  LET neg == Len(s) >= 1 /\ s[1] = "-"
      from == IF neg THEN 2 ELSE 1
      il == DigitRun(s, from)
      dot == from + il <= Len(s) /\ s[from + il] = "."
      fl == IF dot THEN DigitRun(s, from + il + 1) ELSE 0
  IN IF Len(s) >= from + 7 /\ SubSeq(s, from, from + 7) = InfinityText THEN Inf(neg)
     ELSE IF il + fl = 0 THEN NaN
     ELSE Fin(neg, RunValue(s, from, il) * Pow10(fl) + RunValue(s, from + il + 1, fl),
              Pow10(fl))

\* n as a signed whole number
Signed(a) == IF a.neg THEN -a.n ELSE a.n
Abs(v) == IF v < 0 THEN -v ELSE v

\* prev + curr, prev - curr, prev * curr, prev / curr, prev % curr
Arith(op, a, b) ==
  LET minus == [b EXCEPT !.neg = ~b.neg]
      add(x, y) ==
        IF x.k = "inf" /\ y.k = "inf" THEN (IF x.neg = y.neg THEN x ELSE NaN)
        ELSE IF x.k = "inf" THEN x
        ELSE IF y.k = "inf" THEN y
        ELSE LET v == Signed(x) * y.d + Signed(y) * x.d
             IN Fin(v < 0 \/ (v = 0 /\ x.neg /\ y.neg), Abs(v), x.d * y.d)
      sign == a.neg # b.neg
  IN IF a.k = "nan" \/ b.k = "nan" THEN NaN
     ELSE CASE op = "+" -> add(a, b)
            [] op = "-" -> add(a, minus)
            [] op = "*" ->
                 IF a.k = "inf" \/ b.k = "inf"
                   THEN (IF (a.k = "fin" /\ a.n = 0) \/ (b.k = "fin" /\ b.n = 0)
                           THEN NaN ELSE Inf(sign))
                   ELSE Fin(sign, a.n * b.n, a.d * b.d)
            [] op = "/" ->
                 IF a.k = "inf" THEN (IF b.k = "inf" THEN NaN ELSE Inf(sign))
                 ELSE IF b.k = "inf" THEN Fin(sign, 0, 1)
                 ELSE IF b.n = 0 THEN (IF a.n = 0 THEN NaN ELSE Inf(sign))
                 ELSE Fin(sign, a.n * b.d, a.d * b.n)
            [] op = "%" ->
                 IF a.k = "inf" THEN NaN
                 ELSE IF b.k = "inf" THEN a
                 ELSE IF b.n = 0 THEN NaN
                 ELSE Fin(a.neg, (a.n * b.d) % (b.n * a.d), a.d * b.d)
            [] OTHER -> Fin(FALSE, 0, 1)

\* the first k decimals of rem / d, as a whole number
RECURSIVE Decimals(_, _, _)
Decimals(rem, d, k) ==
  IF k = 0 THEN 0
  ELSE ((rem * 10) \div d) * Pow10(k - 1) + Decimals((rem * 10) % d, d, k - 1)
RECURSIVE Remainder(_, _, _)
Remainder(rem, d, k) == IF k = 0 THEN rem ELSE Remainder((rem * 10) % d, d, k - 1)

\* the decimals of f without the zeros at their end: their number and value
RECURSIVE Stripped(_, _)
Stripped(f, k) ==
  IF k = 0 \/ f % 10 # 0 THEN [f |-> f, k |-> k] ELSE Stripped(f \div 10, k - 1)

RECURSIVE NatText(_)
NatText(v) == IF v < 10 THEN <<DigitChar(v)>> ELSE NatText(v \div 10) \o <<DigitChar(v % 10)>>
\* f written with k digits
RECURSIVE Padded(_, _)
Padded(f, k) == IF k = 0 THEN <<>> ELSE Padded(f \div 10, k - 1) \o <<DigitChar(f % 10)>>

\* parseFloat(result.toFixed(8)).toString(): eight decimals, the nearest (a half
\* goes away from zero), then the shortest text: no zeros at the end, no "-0"
Format(x) ==
  IF x.k = "nan" THEN NaNText
  ELSE IF x.k = "inf" THEN (IF x.neg THEN <<"-">> ELSE <<>>) \o InfinityText
  ELSE LET whole == x.n \div x.d
           rem == x.n % x.d
           f8 == Decimals(rem, x.d, 8)
           up == 2 * Remainder(rem, x.d, 8) >= x.d
           f == IF up THEN f8 + 1 ELSE f8
           carry == f = Pow10(8)
           w == IF carry THEN whole + 1 ELSE whole
           st == Stripped(IF carry THEN 0 ELSE f, 8)
       IN (IF x.neg /\ (w # 0 \/ st.f # 0) THEN <<"-">> ELSE <<>>)
            \o NatText(w)
            \o (IF st.k = 0 THEN <<>> ELSE <<".">> \o Padded(st.f, st.k))

\* `${previous} ${operation} ${current} = ${formattedResult}`
Record(p, op, c, r) == <<p, op, c, r>>

\* a slice that keeps everything
sliceAll(arr, from, to) == arr

\* arr.slice(from, to), for 0 <= from <= to
slice(arr, from, to) == SubSeq(arr, from + 1, Min(to, Len(arr)))

\* what calculate leaves behind, called with the state of the last render: nothing
\* changed if (!previous || !operation)
Calculated(cur, prev, op, hist) ==
  IF prev = Null \/ prev = <<>> \/ op = Null
    THEN [current |-> cur, previous |-> prev, operation |-> op, history |-> hist]
    ELSE LET formattedResult == Format(Arith(op[1], parseFloat(prev), parseFloat(cur)))
         IN [current |-> formattedResult,
             previous |-> Null,
             operation |-> Null,
             history |-> <<Record(prev, op, cur, formattedResult)>>
                           \o slice(hist, 0, HistoryKept)]

\* a digit button or key, or the point
handleNumber ==
  /\ keys < MaxKeys
  /\ \E num \in DigitKeys \cup {"."} :
       current' = IF current = <<"0">> /\ num # "." THEN <<num>>
                  ELSE IF (\E i \in 1..Len(current) : current[i] = ".") /\ num = "."
                         THEN current
                  ELSE Append(current, num)
  /\ keys' = keys + 1
  /\ UNCHANGED <<previous, operation, history, showHistory>>
  /\ UNCHANGED chessVars

\* an operator button or key: with a left operand stored, calculate() and then
\* setOperation(op)
handleOperator ==
  /\ keys < MaxKeys
  /\ \E op \in Operators :
       IF previous = Null
         THEN /\ previous' = current
              /\ current' = <<"0">>
              /\ operation' = <<op>>
              /\ UNCHANGED history
         ELSE LET c == Calculated(current, previous, operation, history)
              IN /\ current' = c.current
                 /\ previous' = c.previous
                 /\ history' = c.history
                 /\ operation' = <<op>>
  /\ keys' = keys + 1
  /\ UNCHANGED showHistory
  /\ UNCHANGED chessVars

\* the = button, the = key, Enter
calculate ==
  /\ keys < MaxKeys
  /\ LET c == Calculated(current, previous, operation, history)
     IN /\ current' = c.current
        /\ previous' = c.previous
        /\ operation' = c.operation
        /\ history' = c.history
  /\ keys' = keys + 1
  /\ UNCHANGED showHistory
  /\ UNCHANGED chessVars

\* the C button, Escape
clear ==
  /\ keys < MaxKeys
  /\ current' = <<"0">>
  /\ previous' = Null
  /\ operation' = Null
  /\ keys' = keys + 1
  /\ UNCHANGED <<history, showHistory>>
  /\ UNCHANGED chessVars

\* the delete button, Backspace
deleteLast ==
  /\ keys < MaxKeys
  /\ current' = IF Len(current) = 1 THEN <<"0">> ELSE SubSeq(current, 1, Len(current) - 1)
  /\ keys' = keys + 1
  /\ UNCHANGED <<previous, operation, history, showHistory>>
  /\ UNCHANGED chessVars

\* the history button, and the close button of the overlay
ToggleHistory ==
  /\ keys < MaxKeys
  /\ showHistory' = ~showHistory
  /\ keys' = keys + 1
  /\ UNCHANGED <<current, previous, operation, history>>
  /\ UNCHANGED chessVars

\* Clear History, in the overlay
ClearHistory ==
  /\ keys < MaxKeys
  /\ showHistory
  /\ history' = <<>>
  /\ keys' = keys + 1
  /\ UNCHANGED <<current, previous, operation, showHistory>>
  /\ UNCHANGED chessVars

(***************************************************************************)
(* The online game: two participants of one shared game record (supabase    *)
(* table games).  An update is an HTTP request that the database commits at *)
(* some later time; every commit is sent to every subscriber, the writer    *)
(* included, in the order of the commits.                                   *)
(***************************************************************************)
Participants == {"host", "guest"}

\* board moves and resets followed, of both participants together
MaxInputs == 2

\* the `game` the subscription callback reads: the effect that subscribes runs once,
\* after the first render, so its callback keeps the game of that render
SubscribedGame == AppStart

\* every board move goes through
TurnOkAlways(a, g, r) == TRUE

\* handleBoardMove: if (gameId && game.turn() !== playerRole) return; onDrop has no
\* turn enforcement in multiplayer mode
TurnOk(a, g, r) == IF a = "GameRoom" THEN g.turn = r ELSE TRUE

\* setGame(gameCopy), and the update of the record with gameCopy.fen()
Moved(p, gameCopy) ==
  /\ view' = [view EXCEPT ![p] = gameCopy]
  /\ writes' = writes \cup {[fen |-> Fen(gameCopy), by |-> p, no |-> boardMoves + rematches]}

\* the moves of a list
Listed(ms) == {ms[k] : k \in 1..Len(ms)}

\* a legal move on p's board: applied, and the new fen sent to the record
BoardMove(p) ==
  /\ pc = "online"
  /\ boardMoves + rematches < MaxInputs
  /\ TurnOk(app, view[p], role[p])
  /\ \E m \in Listed(moves(view[p])) : Moved(p, makeMove(view[p], m))
  /\ boardMoves' = boardMoves + 1
  /\ UNCHANGED <<role, record, inbox, rematches>>
  /\ UNCHANGED offlineVars

\* Reset Board (ChessBoardGame: the new fen is sent to the record), Rematch
\* (GameRoom, shown when the game is over: setGame(new Chess()) and nothing else)
ResetBoard(p) ==
  /\ pc = "online"
  /\ boardMoves + rematches < MaxInputs
  /\ app = "GameRoom" => isGameOver(view[p])
  /\ view' = [view EXCEPT ![p] = AppStart]
  /\ writes' = IF app = "ChessBoardGame"
                 THEN writes \cup {[fen |-> Fen(AppStart), by |-> p,
                                    no |-> boardMoves + rematches]}
                 ELSE writes
  /\ rematches' = rematches + 1
  /\ UNCHANGED <<role, record, inbox, boardMoves>>
  /\ UNCHANGED offlineVars

\* the database commits an update and sends it to the subscribers
Commit ==
  /\ pc = "online"
  /\ \E w \in writes :
       /\ record' = w.fen
       /\ writes' = writes \ {w}
       /\ inbox' = [q \in Participants |-> Append(inbox[q], w.fen)]
  /\ UNCHANGED <<role, view, boardMoves, rematches>>
  /\ UNCHANGED offlineVars

\* the subscription callback: if (newFen !== game.fen()) setGame(new Chess(newFen))
Deliver(p) ==
  /\ pc = "online"
  /\ inbox[p] # <<>>
  /\ view' = IF Head(inbox[p]) # Fen(SubscribedGame)
               THEN [view EXCEPT ![p] = FromFen(Head(inbox[p]))]
               ELSE view
  /\ inbox' = [inbox EXCEPT ![p] = Tail(inbox[p])]
  /\ UNCHANGED <<role, record, writes, boardMoves, rematches>>
  /\ UNCHANGED offlineVars

(***************************************************************************)
(* Specifications                                                          *)
(***************************************************************************)
\* no calculator open
NoCalc ==
  /\ current = <<"0">>
  /\ previous = Null
  /\ operation = Null
  /\ history = <<>>
  /\ showHistory = FALSE
  /\ keys = 0

\* no online game
NoNet ==
  /\ role = [p \in Participants |-> "w"]
  /\ view = [p \in Participants |-> Game(EmptyBoard, "w")]
  /\ record = Fen(Game(EmptyBoard, "w"))
  /\ writes = {}
  /\ inbox = [p \in Participants |-> <<>>]
  /\ boardMoves = 0
  /\ rematches = 0

\* no application around the call
NoApp ==
  /\ app = "none"
  /\ mode = "none"
  /\ shown = Game(EmptyBoard, "w")
  /\ timers = <<>>
  /\ running = NoTimer
  /\ humanMoves = 0
  /\ resets = 0
  /\ awaiting = FALSE
  /\ fresh = FALSE
  /\ log = NoLog

Idle ==
  /\ cands = <<>>
  /\ order = <<>>
  /\ depth = 0
  /\ isWhite = FALSE
  /\ idx = 0
  /\ bestMove = NoMove
  /\ bestValue = 0
  /\ bestMoveFound = NoMove
  /\ bestValFound = 0
  /\ stack = <<>>
  /\ scored = <<>>
  /\ result = NoMove
  /\ callNo = 1
  /\ first = Unset
  /\ count = ZeroCount

Init ==
  /\ lib \in Libs
  /\ difficulty \in Difficulty
  /\ game \in StartPositions
  /\ game0 = game
  /\ pc = "idle"
  /\ Idle
  /\ board = EmptyBoard
  /\ score = NoScore
  /\ rejects = {}
  /\ NoApp
  /\ NoCalc
  /\ NoNet

Next ==
  \/ ReturnNull
  \/ ReturnRandom
  \/ StartSearch
  \/ TryCandidate
  \/ MinimaxDescend
  \/ MinimaxReturn
  \/ Scored003
  \/ Return003
  \/ Scored004First
  \/ Rerun004
  \/ Scored004
  \/ Return004
  \/ CallAgain

Spec == Init /\ [][Next]_vars

\* a call of getBestMove is under way: it has not reached a return statement
Running == pc # "done"

\* the search is synchronous code: once called it runs on to its return. Weak fairness
\* of the steps of a call, with their enabledness written as Running: a call that stays
\* under way takes steps again and again (the caller may or may not call again)
FairSpec == Spec /\ (<>[]Running => []<><<Next>>_vars)

InitEval ==
  /\ lib \in Libs
  /\ difficulty = "Easy"
  /\ game = Game(EmptyBoard, "w")
  /\ game0 = game
  /\ pc = "eval"
  /\ Idle
  /\ board = EmptyBoard
  /\ score = NoScore
  /\ rejects = {}
  /\ NoApp
  /\ NoCalc
  /\ NoNet

NextEval == PutPiece \/ Evaluate

SpecEval == InitEval /\ [][NextEval]_vars

\* one call on a game whose rules engine refuses at most one of the moves it listed
InitReject ==
  /\ lib \in Libs
  /\ difficulty \in Difficulty
  /\ game \in StartPositions
  /\ game0 = game
  /\ pc = "idle"
  /\ Idle
  /\ board = EmptyBoard
  /\ score = NoScore
  /\ rejects \in {{}} \cup {{m} : m \in {moves(game)[k] : k \in 1..Len(moves(game))}}
  /\ NoApp
  /\ NoCalc
  /\ NoNet

NextReject ==
  \/ ReturnNull
  \/ ReturnRandom
  \/ StartSearch
  \/ TryCandidate
  \/ MoveThrows
  \/ MinimaxDescend
  \/ MinimaxReturn
  \/ Scored003
  \/ Return003
  \/ Scored004First
  \/ Rerun004
  \/ Scored004
  \/ Return004

SpecReject == InitReject /\ [][NextReject]_vars

\* a game against the AI, or a local game, from its first render
InitApp ==
  /\ app \in Apps
  /\ mode \in Modes
  /\ lib \in Libs
  /\ difficulty \in Difficulty
  /\ shown = AppStart
  /\ timers = <<>>
  /\ running = NoTimer
  /\ humanMoves = 0
  /\ resets = 0
  /\ awaiting = FALSE
  /\ fresh = FALSE
  /\ log = NoLog
  /\ game = Game(EmptyBoard, "w")
  /\ game0 = game
  /\ pc = "app"
  /\ Idle
  /\ board = EmptyBoard
  /\ score = NoScore
  /\ rejects = {}
  /\ NoCalc
  /\ NoNet

NextApp ==
  \/ HumanMove
  \/ Reset
  \/ TimerFire
  \/ ReturnRandom
  \/ StartSearch
  \/ TryCandidate
  \/ MinimaxDescend
  \/ MinimaxReturn
  \/ Scored003
  \/ Return003
  \/ Scored004First
  \/ Rerun004
  \/ Scored004
  \/ Return004
  \/ Reply

SpecApp == InitApp /\ [][NextApp]_vars

\* a timer callback is executing
Executing == pc # "app"

\* an armed timer fires unless it is cleared first; the callback is synchronous code
\* and runs on to its end
FairApp ==
  /\ SpecApp
  /\ WF_vars(TimerFire)
  /\ <>[]Executing => []<><<NextApp>>_vars

\* the record of the i-th of a row of calculations: 1 + 1 = 2, 2 + 1 = 3, ...
Past(i) == Record(NatText(i), <<"+">>, <<"1">>, NatText(i + 1))
\* the history after k of them, the newest first
Earlier(k) == [j \in 1..k |-> Past(k + 1 - j)]

\* the calculator when opened, and after as many calculations as the history keeps,
\* or one more, and a press of C
InitCalc ==
  /\ current = <<"0">>
  /\ previous = Null
  /\ operation = Null
  /\ history \in {Earlier(k) : k \in {0, HistoryKept, HistoryKept + 1}}
  /\ showHistory = FALSE
  /\ keys = 0
  /\ lib = "part_003"
  /\ difficulty = "Easy"
  /\ game = Game(EmptyBoard, "w")
  /\ game0 = game
  /\ pc = "calc"
  /\ Idle
  /\ board = EmptyBoard
  /\ score = NoScore
  /\ rejects = {}
  /\ NoApp
  /\ NoNet

NextCalc ==
  \/ handleNumber
  \/ handleOperator
  \/ calculate
  \/ clear
  \/ deleteLast
  \/ ToggleHistory
  \/ ClearHistory

SpecCalc == InitCalc /\ [][NextCalc]_vars

\* GameRoom, opened for a game against the AI or, like ChessBoardGame in
\* multiplayer mode, by two participants for one game record that holds the
\* starting position; in GameRoom each participant's role comes from its link
InitOnline ==
  \/ /\ InitApp
     /\ app = "GameRoom"
     /\ mode = "ai"
  \/ /\ app \in Apps
     /\ mode = "online"
     /\ role \in [Participants -> {"w", "b"}]
     /\ app = "ChessBoardGame" => role = [p \in Participants |-> "w"]
     /\ view = [p \in Participants |-> AppStart]
     /\ record = Fen(AppStart)
     /\ writes = {}
     /\ inbox = [p \in Participants |-> <<>>]
     /\ boardMoves = 0
     /\ rematches = 0
     /\ shown = Game(EmptyBoard, "w")
     /\ timers = <<>>
     /\ running = NoTimer
     /\ humanMoves = 0
     /\ resets = 0
     /\ awaiting = FALSE
     /\ fresh = FALSE
     /\ log = NoLog
     /\ lib = "part_003"
     /\ difficulty = "Easy"
     /\ game = Game(EmptyBoard, "w")
     /\ game0 = game
     /\ pc = "online"
     /\ Idle
     /\ board = EmptyBoard
     /\ score = NoScore
     /\ rejects = {}
     /\ NoCalc

NextOnline ==
  \/ \E p \in Participants : BoardMove(p)
  \/ \E p \in Participants : ResetBoard(p)
  \/ Commit
  \/ \E p \in Participants : Deliver(p)
  \/ NextApp

SpecOnline == InitOnline /\ [][NextOnline]_vars

(***************************************************************************)
(* Properties                                                              *)
(***************************************************************************)
Range(seq) == {seq[k] : k \in 1..Len(seq)}
Returned == pc = "done"
Searching == pc \in {"loop", "loop1", "loop2"}

\* C1 Legality: whenever getBestMove returns a move (anything but null), for any
\* tier and either version, the move is one of the legal moves of the position
\* the call was made on.
C1_Legality ==
  (Returned /\ result # NoMove) => result \in Range(moves(game0))

\* a Hard search that ran minimax has returned a move
C1_Witness ==
  /\ Returned
  /\ difficulty = "Hard"
  /\ count.minimax > 1
  /\ result \in Range(moves(game0))

\* material of the board as colour c counts it: own pieces minus the other side's
MaterialFor(c, b) == Sign(c) * evaluateBoard("part_003", b)

\* the material, for colour c, of every position a line of d plies from g can end in
RECURSIVE LeafMaterials(_, _, _)
LeafMaterials(g, d, c) ==
  IF Terminal(g, d) THEN {MaterialFor(c, g.board)}
  ELSE UNION {LeafMaterials(move(g, m), d - 1, c) : m \in Range(moves(g))}

\* candidate m wins material at once and keeps it whatever follows within the depth
WinsMaterial(m) ==
  LET c == game0.turn
      g == move(game0, m)
  IN /\ MaterialFor(c, g.board) > MaterialFor(c, game0.board)
     /\ \A v \in LeafMaterials(g, depth - 1, c) : v > MaterialFor(c, game0.board)

\* candidate m leaves the mover's material no better on any line within the depth
NoBetter(m) ==
  LET c == game0.turn
  IN \A v \in LeafMaterials(move(game0, m), depth - 1, c) : v <= MaterialFor(c, game0.board)

\* C2 Selection direction: for a non-Random tier and either side to move, when one
\* candidate wins material for the mover and every other candidate leaves the
\* mover's material no better within the searched depth, getBestMove returns the
\* winning candidate.
C2_SelectionDirection ==
  (Returned /\ difficulty # "Beginner") =>
     \A m \in Range(cands) :
        (WinsMaterial(m) /\ \A o \in Range(cands) \ {m} : NoBetter(o)) => result = m

SetMax(S) == CHOOSE x \in S : \A y \in S : y <= x
SetMin(S) == CHOOSE x \in S : \A y \in S : x <= y

\* minimax without pruning: the same tree, the same leaf values, no window
RECURSIVE PlainMinimax(_, _, _, _)
PlainMinimax(l, g, d, isMax) ==
  IF Terminal(g, d) THEN LeafValue(l, g)
  ELSE LET below == {PlainMinimax(l, move(g, m), d - 1, ~isMax) : m \in Range(moves(g))}
       IN IF isMax THEN SetMax(below \cup {-Sentinel(l)})
          ELSE SetMin(below \cup {Sentinel(l)})

\* a minimax call made by getBestMove (full window) is about to return
RootReturns == Len(stack) = 1 /\ Top.at = "ret"

\* C3 Alpha-beta correctness: a minimax call with the full window returns, for
\* every position, depth and value of the maximizing flag, exactly the value of
\* the unpruned minimax over the same tree; the cutoffs change only what is visited.
C3_AlphaBeta ==
  RootReturns => Top.val = PlainMinimax(lib, Top.entry, Top.depth, Top.isMax)

\* a full-window call returns after a cutoff pruned siblings inside it
C3_Witness ==
  /\ RootReturns
  /\ idx = 1
  /\ count.pruned > 0
  /\ Top.depth >= 2
  /\ Top.val = PlainMinimax(lib, Top.entry, Top.depth, Top.isMax)

\* C4 Null exactly when there is no legal move: getBestMove returns null if and
\* only if the position has no legal move; in that case it has applied no move and
\* called neither minimax nor the evaluator; with a legal move to choose from it
\* returns one of them, for every tier.
C4_NullIffNoMoves ==
  Returned =>
    /\ (result = NoMove) <=> (moves(game0) = <<>>)
    /\ (moves(game0) = <<>>) => (count = ZeroCount /\ game = game0)
    /\ (moves(game0) # <<>>) => result \in Range(moves(game0))

\* a Master call on a position without legal moves has returned null
C4_Witness ==
  /\ Returned
  /\ difficulty = "Master"
  /\ moves(game0) = <<>>
  /\ result = NoMove

\* C5 Exact restoration: when getBestMove has returned, and whenever a minimax call
\* is about to return (after a cutoff too) or stands before its next sibling, the
\* game object holds the board, side to move and history it held when that call
\* began; every move applied has been undone exactly once, except the moves of the
\* calls still running.
C5_Restoration ==
  /\ Returned => game = game0
  /\ (Searching /\ stack = <<>>) => game = game0
  /\ stack # <<>> => game = Top.entry
  /\ Searching => count.applied - count.undone = Len(stack)
  /\ Returned => count.applied = count.undone

\* a minimax call returns because of a cutoff, siblings untried, the game as it was
C5_Witness ==
  /\ stack # <<>>
  /\ Top.at = "ret"
  /\ ~Top.leaf
  /\ Top.i < Len(Top.moves)
  /\ game = Top.entry
  /\ game # game0

\* the board with colours swapped and rows turned over: row i becomes row 7 - i
Mirror(b) ==
  [sq \in Squares |->
     LET piece == b[Sq(7 - RowOf(sq), ColOf(sq))]
     IN IF piece = NoPiece THEN NoPiece ELSE Piece(Other(piece.color), piece.type)]

ClaimedMaterial(t) ==
  CASE t = "p" -> 10 [] t = "n" -> 30 [] t = "b" -> 30
    [] t = "r" -> 50 [] t = "q" -> 90 [] t = "k" -> 900

\* the bonus of the piece on sq as the claim states it: the table entry for pawns
\* and knights (white at its own square, black at the mirrored one), zero otherwise
ClaimedBonus(b, sq) ==
  LET at == IF b[sq].color = "w" THEN sq ELSE Sq(7 - RowOf(sq), ColOf(sq))
  IN CASE b[sq].type = "p" -> PST_p[at + 1]
       [] b[sq].type = "n" -> PST_n[at + 1]
       [] OTHER -> 0

Occupied(b) == {sq \in Squares : b[sq] # NoPiece}

\* what the claim has the piece on sq add to the score
ClaimedTerm(b, sq, withBonus) ==
  (IF b[sq].color = "w" THEN 1 ELSE -1)
    * (ClaimedMaterial(b[sq].type) + (IF withBonus THEN ClaimedBonus(b, sq) ELSE 0))

RECURSIVE ClaimedSum(_, _, _)
ClaimedSum(b, S, withBonus) ==
  IF S = {} THEN 0
  ELSE LET sq == CHOOSE x \in S : TRUE
       IN ClaimedTerm(b, sq, withBonus) + ClaimedSum(b, S \ {sq}, withBonus)

\* the sum over the pieces of sign * (material + bonus), with or without the bonus
ClaimedScore(b, withBonus) == ClaimedSum(b, Occupied(b), withBonus)

C8_RandomTier ==
  (Returned /\ difficulty = "Beginner") =>
    /\ count = ZeroCount
    /\ stack = <<>>
    /\ game = game0
    /\ moves(game0) # <<>> =>
         /\ result \in Range(moves(game0))
         /\ {ArrayAt(moves(game0), r) : r \in RandomIndex(Len(moves(game0)))}
              = Range(moves(game0))

\* a Beginner call has returned the last of three legal moves
C8_Witness ==
  /\ Returned
  /\ difficulty = "Beginner"
  /\ Len(moves(game0)) = 3
  /\ result = moves(game0)[3]
  /\ count = ZeroCount

\* C9 Determinism: a later call of a non-Random tier on the same position, with
\* the same tier and the same candidate order as the first call, returns the move
\* the first call returned.
C9_Determinism ==
  (Returned /\ callNo >= 2 /\ difficulty # "Beginner"
     /\ game0 = first.game /\ order = first.order) => result = first.result

\* the second Hard call of the shuffling version, same shuffle, same move
C9_Witness ==
  /\ Returned
  /\ callNo = 2
  /\ lib = "part_003"
  /\ difficulty = "Hard"
  /\ Len(cands) = 3
  /\ order = first.order
  /\ order # Identity(3)
  /\ game0 = first.game
  /\ result = first.result
  /\ result # NoMove

\* the depths of the running minimax calls: never negative, one less at every
\* level, the outermost one less than the tier's depth, no call below depth 0
DepthsDescend ==
  /\ \A k \in 1..Len(stack) : stack[k].depth >= 0
  /\ \A k \in 1..Len(stack) : stack[k].depth = depth - k
  /\ \A k \in 1..Len(stack) : stack[k].depth = 0 => (k = Len(stack) /\ stack[k].at = "ret")
  /\ Len(stack) <= depth
  /\ Searching => depth = TierDepth(lib, difficulty)

\* C10 Termination: every call of getBestMove returns; minimax is never entered
\* with a negative depth, each recursive call has a depth one less than its
\* caller's, the recursion stops at depth 0, and so there are never more nested
\* calls than the tier's ply depth.
C10_Termination ==
  /\ []DepthsDescend
  /\ [](pc = "idle" => <>(pc = "done"))

\* a Master search of part_003 stands at its deepest: four nested calls, depth 0
C10_Witness ==
  /\ depth = 4
  /\ Len(stack) = 4
  /\ Top.depth = 0
  /\ Top.at = "ret"

\* C13 Rejected candidate skipped: when the rules engine refuses a candidate that
\* getBestMove applies, the call is not aborted: it goes on with the remaining
\* candidates and returns a move.
C13_RejectedSkipped ==
  /\ pc # "thrown"
  /\ (Returned /\ moves(game0) # <<>>) => result \in Range(moves(game0))

\* C14 Terminal condition: a minimax call at depth 0, or on a position that is
\* game over, returns exactly the evaluator's score of that position, from white's
\* point of view, without a change of sign, whatever the maximizing flag.
C14_TerminalValue ==
  \A k \in 1..Len(stack) :
     (stack[k].at = "ret" /\ Terminal(stack[k].entry, stack[k].depth)) =>
        stack[k].val = evaluateBoard(lib, stack[k].entry.board)

\* the best, for the mover, of the scores the deciding loop got from minimax
BestScore == IF game0.turn = "w" THEN SetMax(Range(scored)) ELSE SetMin(Range(scored))

\* C15 Candidate scoring: a search of ply depth d calls minimax for each candidate
\* on the position after the candidate, with depth d - 1, a window that encloses
\* every value, and the flag false for a white mover and true for a black one;
\* the move returned has the highest of the candidates' scores for a white mover
\* and the lowest for a black mover.
C15_CandidateScoring ==
  /\ (Searching /\ stack # <<>>) =>
        /\ stack[1].entry = move(game0, cands[idx])
        /\ stack[1].depth = TierDepth(lib, difficulty) - 1
        /\ stack[1].isMax = (game0.turn = "b")
        /\ Window(lib, pc) > Sentinel(lib)
        /\ (stack[1].leaf \/ (stack[1].at = "loop" /\ stack[1].i = 1)) =>
              (stack[1].alpha = -Window(lib, pc) /\ stack[1].beta = Window(lib, pc))
  /\ (Len(stack) = 1 /\ Top.at = "ret" /\ pc \in {"loop", "loop2"}) =>
        Top.val = PlainMinimax(lib, move(game0, cands[idx]), depth - 1, game0.turn = "b")
  /\ (Returned /\ difficulty # "Beginner" /\ result # NoMove) =>
        /\ Len(scored) = Len(cands)
        /\ \E k \in 1..Len(cands) : cands[k] = result /\ scored[k] = BestScore

\* a Hard search for black has returned the candidate with the lowest of several scores
C15_Witness ==
  /\ Returned
  /\ difficulty = "Hard"
  /\ game0.turn = "b"
  /\ Cardinality(Range(scored)) >= 2
  /\ \E k \in 1..Len(cands) : cands[k] = result /\ scored[k] = SetMin(Range(scored))

\* the first n candidates, each as <<place in the scoring order, score>>
ScoredFirst(n) == {<<k, scored[k]>> : k \in 1..n}

\* of the scored candidates S, the one with the best score for the mover, and of
\* those with that score the one scored first
EarliestIn(S, white) ==
  CHOOSE p \in S : \A q \in S :
     \/ IF white THEN q[2] < p[2] ELSE q[2] > p[2]
     \/ (q[2] = p[2] /\ q[1] >= p[1])

\* the earliest of the first n candidates that has the best score among them
EarliestBest(n) == cands[EarliestIn(ScoredFirst(n), game0.turn = "w")[1]]

\* the candidate the deciding loop has kept
Kept == IF lib = "part_003" THEN bestMove ELSE bestMoveFound

\* C16 Tie-break: the comparison is strict, so between candidates the kept one is
\* replaced only by a strictly better score: after each scored candidate the kept
\* move is the earliest of the best so far, and the move returned is the earliest,
\* in scoring order, of the candidates with the best score.
C16_TieBreak ==
  /\ (pc \in {"loop", "loop2"} /\ stack = <<>> /\ idx > 1) => Kept = EarliestBest(idx - 1)
  /\ (Returned /\ difficulty # "Beginner" /\ result # NoMove) =>
        result = EarliestBest(Len(cands))

\* two candidates tie for the best score and the one scored first was returned
C16_Witness ==
  /\ Returned
  /\ difficulty # "Beginner"
  /\ result # NoMove
  /\ \E j, k \in 1..Len(cands) :
       /\ j < k
       /\ result = cands[j]
       /\ scored[k] = scored[j]
       /\ scored[j] = BestScore

\* the candidates whose score is the best for the mover
TiedBest == {cands[k] : k \in {j \in 1..Len(cands) : scored[j] = BestScore}}

\* the first move of the list ms that is one of the tied best
FirstTied(ms) ==
  ms[CHOOSE k \in 1..Len(ms) : ms[k] \in TiedBest /\ \A j \in 1..(k - 1) : ms[j] \notin TiedBest]

\* what a call on this position can return, over the orders the candidates can take
PossibleReturns ==
  {FirstTied(Arranged(moves(game0), p)) : p \in Orders(lib, Len(moves(game0)))}

\* the candidate list holds the legal moves, each once
ExactlyLegal ==
  /\ Len(cands) = Len(moves(game0))
  /\ Range(cands) = Range(moves(game0))

\* a search has returned a move
SearchReturned == Returned /\ difficulty # "Beginner" /\ result # NoMove

\* C17 as the claim has it: in both versions the candidates are scored in a
\* randomized order, so every candidate tied for the best score can be returned,
\* and the list scored holds exactly the legal moves.
C17_Original ==
  SearchReturned => (ExactlyLegal /\ TiedBest \subseteq PossibleReturns)

\* C17 as amended: the list scored holds exactly the legal moves, each once; the
\* version that shuffles (part_003) can return every candidate tied for the best
\* score; the version that does not (part_004) scores the candidates in the order
\* the rules engine lists them and returns the first of the tied candidates.
C17_CandidateOrder ==
  SearchReturned =>
    /\ ExactlyLegal
    /\ lib = "part_003" => TiedBest \subseteq PossibleReturns
    /\ lib = "part_004" => (cands = moves(game0) /\ result = FirstTied(moves(game0)))

\* the shuffling version has returned a tied candidate that is not the first listed
C17_Witness ==
  /\ SearchReturned
  /\ lib = "part_003"
  /\ Cardinality(TiedBest) >= 2
  /\ result \in TiedBest
  /\ result # FirstTied(moves(game0))
  /\ cands # moves(game0)

\* C18 No-legal-move terminal: a minimax call with depth > 0 on a position without
\* legal moves returns the evaluator's score of the position, as a depth-0 call
\* does; no minimax call returns one of the initial sentinels, and every value
\* returned is a value the evaluator can give.
C18_NoMoveTerminal ==
  \A k \in 1..Len(stack) :
     stack[k].at = "ret" =>
       /\ (stack[k].depth > 0 /\ moves(stack[k].entry) = <<>>) =>
             stack[k].val = evaluateBoard(lib, stack[k].entry.board)
       /\ stack[k].val \notin {Sentinel(lib), -Sentinel(lib)}
       /\ -Sentinel(lib) < stack[k].val /\ stack[k].val < Sentinel(lib)

\* the ply depths the claim allows a tier
ClaimedDepths(d) ==
  CASE d = "Easy" -> {1, 2} [] d = "Hard" -> {3} [] d = "Master" -> {3, 4}

\* C19 Tier depth: every non-Random tier has one fixed ply depth, Easy 1 or 2,
\* Hard 3, Master 3 or 4, not decreasing from Easy to Hard to Master; a search
\* runs with the depth of its tier, whatever the position and however many calls
\* came before.
C19_TierDepth ==
  (Searching \/ SearchReturned) =>
    /\ depth \in ClaimedDepths(difficulty)
    /\ depth = TierDepth(lib, difficulty)
    /\ stack # <<>> => stack[1].depth = depth - 1
    /\ \A d \in Difficulty \ {"Beginner"} : TierDepth(lib, d) \in ClaimedDepths(d)
    /\ TierDepth(lib, "Easy") <= TierDepth(lib, "Hard")
    /\ TierDepth(lib, "Hard") <= TierDepth(lib, "Master")

\* a second Master call of part_003 searches four plies deep
C19_Witness ==
  /\ Searching
  /\ callNo = 2
  /\ difficulty = "Master"
  /\ lib = "part_003"
  /\ depth = 4
  /\ Len(stack) = 4

(***************************************************************************)
(* The application: resets, mutual exclusion, the AI's reply.              *)
(***************************************************************************)
\* C11: a move selection pending for the position before a reset (timer armed or
\* search running) is never applied: every pending selection and every reply
\* applied belongs to the game since the last reset, and after a reset the board
\* stays at the starting position, white to move, nothing pending, until a human
\* move is accepted.
C11_StaleDiscarded ==
  /\ \A k \in 1..Len(timers) : timers[k].epoch = resets
  /\ pc # "app" => running.epoch = resets
  /\ log.last = "reply" => log.armed = log.applied
  /\ fresh => /\ Fen(shown) = Fen(AppStart)
              /\ shown.turn = "w"
              /\ timers = <<>>
              /\ pc = "app"

\* a reset found a timer armed for the position before it, and no human move has
\* been accepted since
C11_Witness ==
  /\ fresh
  /\ log.last = "reset"
  /\ log.dropped > 0
  /\ mode = "ai"

\* selections pending: armed timers and the running search
Pending == Len(timers) + (IF pc # "app" THEN 1 ELSE 0)

\* C12: in AI mode, from an accepted human (white) move until the AI's reply is
\* applied no further human board move is accepted, and never is more than one
\* move selection (armed timer or running search) pending.
C12_MutualExclusion ==
  /\ [](Pending <= 1)
  /\ [][awaiting => humanMoves' = humanMoves]_vars

\* the second human move of an AI game has been accepted, after the reply to the
\* first, and its own reply is pending
C12_Witness ==
  /\ mode = "ai"
  /\ humanMoves = MaxHumanMoves
  /\ awaiting
  /\ Pending = 1
  /\ resets = 0

\* a human move was accepted in AI mode and left the game not over
HumanMoved == mode = "ai" /\ log.last = "human" /\ ~isGameOver(shown)

\* a selection is scheduled only in AI mode, for the position shown, with black to
\* move and the game not over; the search is called on that position and leaves
\* it as it was
Scheduled ==
  /\ \A k \in 1..Len(timers) :
       /\ mode = "ai"
       /\ Fen(timers[k].game) = Fen(shown)
       /\ shown.turn = "b"
       /\ ~isGameOver(shown)
  /\ pc # "app" => /\ mode = "ai"
                   /\ Fen(running.game) = Fen(shown)
                   /\ shown.turn = "b"
  /\ pc \in {"idle", "done"} => Fen(game) = Fen(shown)
  /\ pc \notin {"app", "idle"} => Fen(game0) = Fen(shown)

\* the move getBestMove returned is a move of the position shown and is applied
Applied ==
  (pc = "done" /\ pc' = "app") =>
      /\ \E k \in 1..Len(moves(shown)) : moves(shown)[k] = result
      /\ Fen(shown') = Fen(move(shown, result))

\* C20 as stated: after every accepted human move in AI mode that leaves the game
\* not over, getBestMove is invoked and its move applied.
C20_Original == HumanMoved ~> (log.last = "reply")

\* C20: in AI mode, after every accepted human move that leaves the game not over,
\* getBestMove is invoked for the resulting position after the delay and the move
\* it returns is applied, unless the game is reset before the delay has elapsed;
\* the turn returns to white; no selection is scheduled while it is white's turn
\* or the game is over.
C20_ReplyLiveness ==
  /\ []Scheduled
  /\ [][Applied]_vars
  /\ HumanMoved ~> (log.last \in {"reply", "reset"})
  /\ (mode = "ai" /\ shown.turn = "b" /\ ~isGameOver(shown)) ~> (shown.turn = "w")

\* the AI has replied to the second human move and it is white's turn again
C20_Witness ==
  /\ mode = "ai"
  /\ log.last = "reply"
  /\ humanMoves = MaxHumanMoves
  /\ shown.turn = "w"
  /\ pc = "app"

(***************************************************************************)
(* The calculator: operands and history.                                   *)
(***************************************************************************)
\* C23: after any sequence of digit, operator, equals, delete and clear inputs a
\* pending operator is stored (operation is not null) only while a left operand is
\* stored (previous is not null).
C23_OperandInvariant == operation # Null => previous # Null

\* a calculation was completed by this step
Completes == (calculate \/ handleOperator) /\ previous # Null /\ operation # Null

\* the history with the record of the calculation in front, cut to ten entries
Inserted ==
  LET all == <<Record(previous, operation, current, current')>> \o history
  IN SubSeq(all, 1, Min(10, Len(all)))

\* C24: the history never holds more than 10 entries; each completed calculation
\* inserts its record at the front and drops the oldest entry beyond ten; digit
\* entry, delete and clear leave the history unchanged.
C24_HistoryBound ==
  /\ [](Len(history) <= 10)
  /\ [][Completes => history' = Inserted]_vars
  /\ [][(handleNumber \/ deleteLast \/ clear) => history' = history]_vars

\* an eleventh calculation was completed: its record is in front and the record of
\* the first is gone
C24_Witness ==
  /\ Len(history) = 10
  /\ history[1] = Record(<<"0">>, <<"+">>, <<"0">>, <<"0">>)
  /\ history[10] = Past(2)

(***************************************************************************)
(* The online game: convergence and turn enforcement.                      *)
(***************************************************************************)
\* every update sent is committed and every realtime event delivered
Quiet == writes = {} /\ \A p \in Participants : inbox[p] = <<>>

\* C21: in an online game every position a participant writes to the shared record,
\* by a move or by a reset, is adopted by the other, so that once all realtime
\* updates are delivered both participants display the position of the record.
C21_Convergence ==
  (mode = "online" /\ Quiet) => \A p \in Participants : Fen(view[p]) = record

\* the updates sent by this step
Sent == writes' \ writes

\* C22: in GameRoom a board move of an online game is applied and written to the
\* record only when the side to move is the participant's role, so the position
\* written has the other side to move; in AI mode a board move is applied only
\* when it is white's turn.
C22_TurnEnforcement ==
  /\ [][\A w \in Sent : app = "GameRoom" =>
          /\ view[w.by].turn = role[w.by]
          /\ w.fen.turn # role[w.by]
          /\ w.fen = Fen(view'[w.by])]_vars
  /\ [][(mode = "online" /\ app = "GameRoom" /\ boardMoves' # boardMoves) => Sent # {}]_vars
  /\ [][(mode = "ai" /\ humanMoves' # humanMoves) => shown.turn = "w"]_vars

\* the guest, playing black, has answered the host's move on its own board: its
\* update is on the way and the host still shows the position before it
C22_Witness ==
  /\ app = "GameRoom"
  /\ mode = "online"
  /\ role["host"] = "w"
  /\ role["guest"] = "b"
  /\ boardMoves = 2
  /\ \E w \in writes : w.by = "guest"
  /\ view["guest"].turn = "w"
  /\ view["host"].turn = "b"

====
